---- MODULE Spec2Model ----
(***************************************************************************)
(* Model of src/fit.py: the two-site exchange model calc_iratio, the rate  *)
(* estimator calc_rates, the loader load_data, plot_fit and main.          *)
(*                                                                         *)
(* Numbers.  A float64 is modelled by exact arithmetic extended with the   *)
(* IEEE special values numpy produces instead of raising: a Q is a         *)
(* fraction [n, d] in lowest terms with d >= 0, where 1/0 is +Inf, -1/0 is *)
(* -Inf and 0/0 is NaN.  An R is a signed square root [s, n, d] standing   *)
(* for s * sqrt(n/d), so that np.sqrt is computed and not assumed away.    *)
(* Rounding and overflow of float64 are not modelled.                      *)
(*                                                                         *)
(* Rates passed to calc_iratio are expressed in units of ln 2 per unit of  *)
(* mixing time, so that np.exp(-(k_12 + k_21) * t_m) is the exact fraction *)
(* 1 / 2^((k_12 + k_21) * t_m); the unit cancels in the quotient.          *)
(***************************************************************************)
EXTENDS Integers, Sequences, FiniteSets, TLC

\* ---------------------------------------------------------------- bounds
MaxRate == 3
MaxTime == 4
MaxExponent == 10
MaxRows == 2

\* ------------------------------------------------------------ arithmetic
Abs(x) == IF x < 0 THEN -x ELSE x

Sgn(x) == IF x < 0 THEN -1 ELSE IF x > 0 THEN 1 ELSE 0

RECURSIVE GCD(_, _)
GCD(a, b) == IF b = 0 THEN a ELSE GCD(b, a % b)

RECURSIVE Pow2(_)
Pow2(n) == IF n = 0 THEN 1 ELSE 2 * Pow2(n - 1)

\* the fraction n/d in lowest terms with a non-negative denominator
QNorm(n, d) ==
    IF d = 0 THEN [n |-> Sgn(n), d |-> 0]
    ELSE LET g == GCD(Abs(n), Abs(d))
             s == Sgn(d)
         IN  [n |-> (s * n) \div g, d |-> Abs(d) \div g]

QInt(i) == [n |-> i, d |-> 1]

QInf == [n |-> 1, d |-> 0]

QNaN == [n |-> 0, d |-> 0]

QIsNaN(q) == q.n = 0 /\ q.d = 0

QIsInf(q) == q.n # 0 /\ q.d = 0

QIsFinite(q) == q.d # 0

QMul(a, b) == QNorm(a.n * b.n, a.d * b.d)

\* float division: x/0 is +-Inf, 0/0 is NaN, no exception
QDiv(a, b) ==
    IF QIsNaN(a) \/ QIsNaN(b) THEN QNaN
    ELSE IF b.n = 0 /\ b.d # 0 THEN QNorm(a.n, 0)
    ELSE QNorm(a.n * b.d, a.d * b.n)

QAdd(a, b) ==
    IF QIsNaN(a) \/ QIsNaN(b) THEN QNaN
    ELSE IF QIsInf(a) /\ QIsInf(b) THEN (IF a.n = b.n THEN a ELSE QNaN)
    ELSE IF QIsInf(a) THEN a
    ELSE IF QIsInf(b) THEN b
    ELSE QNorm(a.n * b.d + b.n * a.d, a.d * b.d)

QNeg(a) == [n |-> -a.n, d |-> a.d]

QSub(a, b) == QAdd(a, QNeg(b))

\* a <= b on finite fractions
QLeq(a, b) == a.n * b.d <= b.n * a.d

\* signed square roots: [s, n, d] is s * sqrt(n/d)
RNaN == [s |-> 0, n |-> 0, d |-> 0]

RIsNaN(r) == r.n = 0 /\ r.d = 0

\* np.sqrt: NaN of a negative number, Inf of Inf
RSqrt(q) ==
    IF QIsNaN(q) \/ q.n < 0 THEN RNaN
    ELSE [s |-> Sgn(q.n), n |-> q.n, d |-> q.d]

\* x ** 2
RSquare(r) == [n |-> r.n, d |-> r.d]

\* r * q
RMulQ(r, q) ==
    LET rad == QMul([n |-> r.n, d |-> r.d], QMul(q, q))
    IN  IF RIsNaN(r) \/ QIsNaN(rad) THEN RNaN
        ELSE [s |-> r.s * Sgn(q.n), n |-> rad.n, d |-> rad.d]

\* r / q with float division
RDivQ(r, q) ==
    LET rad == QDiv([n |-> r.n, d |-> r.d], QMul(q, q))
    IN  IF RIsNaN(r) \/ QIsNaN(rad) THEN RNaN
        ELSE IF q.n = 0 THEN [s |-> r.s, n |-> rad.n, d |-> rad.d]
        ELSE [s |-> r.s * Sgn(q.n), n |-> rad.n, d |-> rad.d]

\* q * r
QMulR(q, r) == RMulQ(r, q)

\* ------------------------------------------------------- exchange model
\* np.exp(-x) for x = m * ln 2
ExpNeg(m) == IF m >= 0 THEN QNorm(1, Pow2(m)) ELSE QInt(Pow2(-m))

calc_iratio_flipped(t_m, k_12, k_21) ==
    LET e == ExpNeg(-((k_12 + k_21) * t_m))
    IN  QDiv(QMul(QSub(QInt(1), e), QInt(k_12)),
             QAdd(QInt(k_21), QMul(QInt(k_12), e)))

calc_iratio_wrong_rate(t_m, k_12, k_21) ==
    LET e == ExpNeg((k_12 + k_21) * t_m)
    IN  QDiv(QMul(QSub(QInt(1), e), QInt(k_21)),
             QAdd(QInt(k_21), QMul(QInt(k_12), e)))

calc_iratio(t_m, k_12, k_21) ==
    LET e == ExpNeg((k_12 + k_21) * t_m)
    IN  QDiv(QMul(QSub(QInt(1), e), QInt(k_12)),
             QAdd(QInt(k_21), QMul(QInt(k_12), e)))

\* --------------------------------------------------------------- inputs
Vals == {0, 1}

ParamVals == {-1, 0, 2}

VarVals == {0, 2}

OffDiagVals == {0, 1}

SolverErrors == {"RuntimeError"}

Series(n) == [1..n -> Vals]

AllSeries == UNION {Series(n) : n \in 0..MaxRows}

\* the input path: absent, not parseable as numbers, or rows of 1..3 columns
Table(nc, rs) == [kind |-> "table", ncols |-> nc, rows |-> rs]

Tables ==
    UNION {{Table(nc, rs) : rs \in [1..n -> [1..nc -> Vals]]} :
           nc \in {1, 2, 3}, n \in 0..MaxRows}

Missing == [kind |-> "missing", ncols |-> 0, rows |-> <<>>]

Garbage == [kind |-> "garbage", ncols |-> 0, rows |-> <<>>]

Files == Tables \cup {Missing, Garbage}

\* the -o argument as (root, extension)
Outputs == {<<"exsy", "">>, <<"out", ".pdf">>}

\* what scipy.optimize.curve_fit can hand back: an exception, or popt with a
\* symmetric positive semi-definite pcov, or popt with pcov filled with Inf
\* when the covariance cannot be estimated
Raise(e) == [kind |-> "raise", exc |-> e, param |-> <<>>, cov |-> <<>>]

Fitted(p, c) == [kind |-> "ok", exc |-> "", param |-> p, cov |-> c]

Params == {<<QInt(a), QInt(b)>> : a \in ParamVals, b \in ParamVals}

FiniteCovs ==
    {<<<<QInt(t[1]), QInt(t[3])>>, <<QInt(t[3]), QInt(t[2])>>>> :
        t \in {x \in VarVals \X VarVals \X OffDiagVals :
                   x[3] * x[3] <= x[1] * x[2]}}

InfCov == <<<<QInf, QInf>>, <<QInf, QInf>>>>

SolverOutcomes ==
    {Raise(e) : e \in SolverErrors}
    \cup {Fitted(p, c) : p \in Params, c \in FiniteCovs \cup {InfCov}}

\* ---------------------------------------------------------------- state
VARIABLES
    entry,      \* which function of fit.py the caller invoked
    pc,         \* position of that call
    input,      \* the file at args.input
    output,     \* args.output
    times,      \* mixing times held by main / passed to calc_rates
    ratios,     \* intensity ratios
    errors,     \* intensity errors
    fitcall,    \* the calls made to curve_fit
    fit,        \* what curve_fit handed back
    result,     \* what calc_rates returned
    printed,    \* the values given to print, in order
    plot,       \* what plot_fit drew and saved
    steps,      \* the functions main has called, in order
    exc,        \* the exception that left the call, "" if none
    memo,       \* curve_fit is a function: earlier calls and their outcomes
    prev,       \* the finished earlier run of main
    model       \* calc_iratio evaluations of the caller

vars == <<entry, pc, input, output, times, ratios, errors, fitcall, fit,
          result, printed, plot, steps, exc, memo, prev, model>>

\* --------------------------------------------------------------- loader
Column(rows, j) == [i \in 1..Len(rows) |-> rows[i][j]]

load_data_wrong_column(content) ==
    IF content.kind = "garbage" THEN
        [exc |-> "ValueError", times |-> <<>>, ratios |-> <<>>, errors |-> <<>>]
    ELSE IF Len(content.rows) < 2 \/ content.ncols < 2 THEN
        [exc |-> "IndexError", times |-> <<>>, ratios |-> <<>>, errors |-> <<>>]
    ELSE
        [exc |-> "",
         times |-> Column(content.rows, 1),
         ratios |-> Column(content.rows, content.ncols),
         errors |-> IF content.ncols > 2 THEN Column(content.rows, 3)
                    ELSE [i \in 1..Len(content.rows) |-> 0]]

\* np.loadtxt raises on non-numeric text and squeezes a single row or a
\* single column to one dimension, where data[:, 0] raises IndexError
load_data(content) ==
    IF content.kind = "garbage" THEN
        [exc |-> "ValueError", times |-> <<>>, ratios |-> <<>>, errors |-> <<>>]
    ELSE IF Len(content.rows) < 2 \/ content.ncols < 2 THEN
        [exc |-> "IndexError", times |-> <<>>, ratios |-> <<>>, errors |-> <<>>]
    ELSE
        [exc |-> "",
         times |-> Column(content.rows, 1),
         ratios |-> Column(content.rows, 2),
         errors |-> IF content.ncols > 2 THEN Column(content.rows, 3)
                    ELSE [i \in 1..Len(content.rows) |-> 0]]

\* ------------------------------------------------------- rate estimator
\* the arguments of scipy.optimize.curve_fit(calc_iratio, times, ratios)
curve_fit_call(ts, rs) ==
    [f |-> "calc_iratio", xdata |-> ts, ydata |-> rs, sigma |-> <<>>]

\* curve_fit is deterministic: the same arguments give the same outcome
curve_fit(call, known) ==
    IF \E m \in known : m.call = call
    THEN {m.outcome : m \in {x \in known : x.call = call}}
    ELSE SolverOutcomes

Thousand == QInt(1000)

p_sigma_of(param_cov) == <<RSqrt(param_cov[1][1]), RSqrt(param_cov[2][2])>>

Kex_of(param) == QDiv(param[1], param[2])

K_error_cross(param, p_sigma, param_cov) ==
    LET cross == QDiv(QMul(QInt(-2), param_cov[1][2]), QMul(param[1], param[2]))
    IN  QMulR(Kex_of(param),
              RSqrt(QAdd(QAdd(RSquare(RDivQ(p_sigma[1], param[1])),
                              RSquare(RDivQ(p_sigma[2], param[2]))), cross)))

K_error_of(param, p_sigma, param_cov) ==
    QMulR(Kex_of(param),
          RSqrt(QAdd(RSquare(RDivQ(p_sigma[1], param[1])),
                     RSquare(RDivQ(p_sigma[2], param[2])))))

\* the three print calls of calc_rates
report(param, p_sigma, param_cov) ==
    << <<"k_12", QMul(param[1], Thousand), RMulQ(p_sigma[1], Thousand)>>,
       <<"k_21", QMul(param[2], Thousand), RMulQ(p_sigma[2], Thousand)>>,
       <<"K_ex", Kex_of(param),
                 K_error_of(param, p_sigma, param_cov)>> >>

calc_rates_converted(o) ==
    LET p_sigma == p_sigma_of(o.cov)
    IN  [param   |-> <<QMul(o.param[1], Thousand), QMul(o.param[2], Thousand)>>,
         p_sigma |-> <<RMulQ(p_sigma[1], Thousand), RMulQ(p_sigma[2], Thousand)>>,
         Kex     |-> Kex_of(o.param),
         K_error |-> K_error_of(o.param, p_sigma, o.cov)]

\* the tuple calc_rates returns once curve_fit has returned o
calc_rates(o) ==
    LET p_sigma == p_sigma_of(o.cov)
    IN  [param   |-> o.param,
         p_sigma |-> p_sigma,
         Kex     |-> Kex_of(o.param),
         K_error |-> K_error_of(o.param, p_sigma, o.cov)]

\* ----------------------------------------------------------------- plot
RECURSIVE Max(_)
Max(xs) ==
    IF Len(xs) = 1 THEN xs[1]
    ELSE LET m == Max(Tail(xs)) IN IF xs[1] >= m THEN xs[1] ELSE m

splitext(name) == name

plot_fit_converted(ts, rs, yerr, fit_params, output_prefix) ==
    [points |-> <<ts, rs, yerr>>,
     x_max  |-> QNorm(11 * Max(ts), 10),
     curve  |-> <<QMul(fit_params[1], Thousand), QMul(fit_params[2], Thousand)>>,
     y_0    |-> calc_iratio(0, fit_params[1].n * 1000, fit_params[2].n * 1000),
     pdf    |-> <<output_prefix, "_fit.pdf">>]

\* the error-bar points, the grid end max(times) * 1.1, the pair given to
\* calc_iratio with its value at the first grid point 0, and the saved file;
\* the other 499 grid points are not computed
plot_fit(ts, rs, yerr, fit_params, output_prefix) ==
    [points |-> <<ts, rs, yerr>>,
     x_max  |-> QNorm(11 * Max(ts), 10),
     curve  |-> fit_params,
     y_0    |-> calc_iratio(0, fit_params[1].n, fit_params[2].n),
     pdf    |-> <<output_prefix, "_fit.pdf">>]

\* -------------------------------------------------------------- actions
NoModel == [k_12 |-> 0, k_21 |-> 0, calls |-> <<>>]

Fresh ==
    /\ pc = "start"
    /\ fitcall = <<>> /\ fit = <<>> /\ result = <<>> /\ printed = <<>>
    /\ plot = <<>> /\ steps = <<>> /\ exc = "" /\ memo = {} /\ prev = <<>>

InitMain ==
    /\ entry = "main"
    /\ input \in Files /\ output \in Outputs
    /\ times = <<>> /\ ratios = <<>> /\ errors = <<>>
    /\ model = NoModel

InitCalcRates ==
    /\ entry = "calc_rates"
    /\ input = Missing /\ output = <<"", "">>
    /\ times \in AllSeries /\ ratios \in AllSeries /\ errors = <<>>
    /\ model = NoModel

InitCalcIratio ==
    /\ entry = "calc_iratio"
    /\ input = Missing /\ output = <<"", "">>
    /\ times = <<>> /\ ratios = <<>> /\ errors = <<>>
    /\ \E a \in 1..MaxRate, b \in 1..MaxRate :
          model = [k_12 |-> a, k_21 |-> b, calls |-> <<>>]

Init == Fresh /\ (InitMain \/ InitCalcRates \/ InitCalcIratio)

MainNotFound_falls_through ==
    /\ entry = "main" /\ pc = "start" /\ input.kind = "missing"
    /\ printed' = Append(printed, <<"not_found">>)
    /\ steps' = Append(steps, "load_data")
    /\ exc' = "OSError"
    /\ pc' = "raised"
    /\ UNCHANGED <<entry, input, output, times, ratios, errors, fitcall, fit,
                   result, plot, memo, prev, model>>

\* main, lines 132-134: the path does not exist
MainNotFound ==
    /\ entry = "main" /\ pc = "start" /\ input.kind = "missing"
    /\ printed' = Append(printed, <<"not_found">>)
    /\ pc' = "returned"
    /\ UNCHANGED <<entry, input, output, times, ratios, errors, fitcall, fit,
                   result, plot, steps, exc, memo, prev, model>>

\* main, line 136
MainLoad ==
    /\ entry = "main" /\ pc = "start" /\ input.kind # "missing"
    /\ LET d == load_data(input)
       IN  /\ steps' = Append(steps, "load_data")
           /\ times' = d.times /\ ratios' = d.ratios /\ errors' = d.errors
           /\ exc' = d.exc
           /\ pc' = IF d.exc = "" THEN "loaded" ELSE "raised"
    /\ UNCHANGED <<entry, input, output, fitcall, fit, result, printed, plot,
                   memo, prev, model>>

\* calc_rates, lines 51-72, called with (times, ratios)
CalcRates(after) ==
    LET call == curve_fit_call(times, ratios)
    IN  /\ fitcall' = Append(fitcall, call)
        /\ \E o \in curve_fit(call, memo) :
              /\ fit' = <<o>>
              /\ memo' = memo \cup {[call |-> call, outcome |-> o]}
              /\ IF o.kind = "raise"
                 THEN /\ exc' = o.exc
                      /\ pc' = "raised"
                      /\ UNCHANGED <<result, printed>>
                 ELSE /\ result' = <<calc_rates(o)>>
                      /\ printed' = printed \o
                                    report(o.param, p_sigma_of(o.cov), o.cov)
                      /\ pc' = after
                      /\ UNCHANGED exc

\* main, line 137
MainFit ==
    /\ entry = "main" /\ pc = "loaded"
    /\ steps' = Append(steps, "calc_rates")
    /\ CalcRates("fitted")
    /\ UNCHANGED <<entry, input, output, times, ratios, errors, plot, prev,
                   model>>

\* calc_rates called directly
ApiCalcRates ==
    /\ entry = "calc_rates" /\ pc = "start"
    /\ CalcRates("returned")
    /\ UNCHANGED <<entry, input, output, times, ratios, errors, plot, steps,
                   prev, model>>

\* main, lines 138-139
MainPlot ==
    /\ entry = "main" /\ pc = "fitted"
    /\ LET output_prefix == splitext(output)[1]
           p == plot_fit(times, ratios, errors, result[1].param, output_prefix)
       IN  /\ plot' = <<p>>
           /\ printed' = Append(printed, <<"saved", p.pdf>>)
    /\ steps' = Append(steps, "plot_fit")
    /\ pc' = "returned"
    /\ UNCHANGED <<entry, input, output, times, ratios, errors, fitcall, fit,
                   result, exc, memo, prev, model>>

\* the program is run once more on a file with the same time and ratio
\* columns and another error column, or none
SameData(f, g) ==
    /\ f.kind = "table" /\ g.kind = "table"
    /\ f.ncols >= 2 /\ g.ncols >= 2
    /\ Len(f.rows) = Len(g.rows)
    /\ \A i \in 1..Len(f.rows) :
          f.rows[i][1] = g.rows[i][1] /\ f.rows[i][2] = g.rows[i][2]

Rerun ==
    /\ entry = "main" /\ pc \in {"returned", "raised"} /\ prev = <<>>
    /\ \E f \in Tables :
          /\ SameData(input, f) /\ f # input
          /\ input' = f
    /\ prev' = <<[input |-> input, times |-> times, ratios |-> ratios,
                  errors |-> errors, fit |-> fit, result |-> result,
                  printed |-> printed, exc |-> exc, pc |-> pc]>>
    /\ pc' = "start"
    /\ times' = <<>> /\ ratios' = <<>> /\ errors' = <<>>
    /\ fitcall' = <<>> /\ fit' = <<>> /\ result' = <<>> /\ printed' = <<>>
    /\ plot' = <<>> /\ steps' = <<>> /\ exc' = ""
    /\ UNCHANGED <<entry, output, memo, model>>

\* calc_iratio called directly, lines 26-27
Evaluate ==
    /\ entry = "calc_iratio" /\ Len(model.calls) < 2
    /\ \E t \in 0..MaxTime :
          /\ (model.k_12 + model.k_21) * t <= MaxExponent
          /\ model' = [model EXCEPT !.calls =
                Append(@, <<t, calc_iratio(t, model.k_12, model.k_21)>>)]
    /\ UNCHANGED <<entry, pc, input, output, times, ratios, errors, fitcall,
                   fit, result, printed, plot, steps, exc, memo, prev>>

Next ==
    \/ MainNotFound
    \/ MainLoad
    \/ MainFit
    \/ MainPlot
    \/ ApiCalcRates
    \/ Rerun
    \/ Evaluate

Spec == Init /\ [][Next]_vars

TypeOK == pc \in {"start", "loaded", "fitted", "returned", "raised"}

\* --------------------------------------------------------------- claims
Called == entry = "calc_rates" /\ pc # "start"

BadShape == Len(times) # Len(ratios) \/ Len(times) < 2

\* C1: calc_rates rejects times and ratios of different lengths, or of fewer
\* than 2 points, with ShapeMismatch before curve_fit is called; the solver
\* is not called and no result is returned.
C1_ShapeRejectedBeforeSolver ==
    (Called /\ BadShape) =>
        /\ fitcall = <<>>
        /\ result = <<>>
        /\ pc = "raised" /\ exc = "ShapeMismatch"

FitOk == fit # <<>> /\ fit[1].kind = "ok"

\* C2: when the fitted k21 is exactly 0, calc_rates fails with a
\* DegenerateParameter / division-by-zero error; it returns and prints no
\* Kex or K_error that is Inf or NaN.
C2_ZeroRateRaises ==
    (FitOk /\ fit[1].param[2] = QInt(0)) =>
        /\ result = <<>>
        /\ pc = "raised"
        /\ exc \in {"DegenerateParameter", "ZeroDivisionError"}
        /\ \A i \in 1..Len(printed) : printed[i][1] # "K_ex"

CovFinite(c) == \A i \in 1..2, j \in 1..2 : QIsFinite(c[i][j])

\* C3: if curve_fit does not converge or cannot estimate the covariance
\* (pcov not finite), calc_rates ends in a failure and returns no tuple.
C3_NoResultWithoutCovariance ==
    (fit # <<>> /\ (fit[1].kind = "raise" \/ ~CovFinite(fit[1].cov))) =>
        /\ result = <<>>
        /\ pc = "raised" /\ exc # ""

Converted(q) == QNorm(q.n * 1000, q.d)

\* C4 as stated: the rates and standard errors calc_rates returns are the
\* fitted values and sqrt of the covariance diagonal, each times 1000.
C4_ReturnsConverted ==
    result # <<>> =>
        \A i \in 1..2 :
            /\ result[1].param[i] = Converted(fit[1].param[i])
            /\ RSquare(result[1].p_sigma[i]) =
                   QMul(fit[1].cov[i][i], QInt(1000000))

\* C4 amended: the rates and standard errors calc_rates returns are the
\* solver's fitted values and sqrt of the covariance diagonal, unconverted;
\* the values times 1000 are the ones the printed report shows.
C4_ReturnsRaw ==
    result # <<>> =>
        \A i \in 1..2 :
            /\ result[1].param[i] = fit[1].param[i]
            /\ result[1].p_sigma[i].s >= 0
            /\ RSquare(result[1].p_sigma[i]) = fit[1].cov[i][i]
            /\ printed[i][2] = Converted(fit[1].param[i])
            /\ RSquare(printed[i][3]) = QMul(fit[1].cov[i][i], QInt(1000000))

C4_Witness ==
    /\ result # <<>>
    /\ CovFinite(fit[1].cov)
    /\ \A i \in 1..2 : fit[1].param[i].n # 0 /\ fit[1].cov[i][i].n # 0

NonZeroRates == \A i \in 1..2 : fit[1].param[i].n # 0

\* C5: for a returned fit with nonzero rates, Kex is raw k12 / raw k21 and
\* K_error^2 = Kex^2 * ((s12/k12)^2 + (s21/k21)^2) with s12^2, s21^2 the
\* covariance diagonal, so the off-diagonal entries play no part.
C5_KexAndError ==
    (result # <<>> /\ NonZeroRates) =>
        LET k12 == fit[1].param[1]
            k21 == fit[1].param[2]
            v12 == fit[1].cov[1][1]
            v21 == fit[1].cov[2][2]
            Kex == result[1].Kex
        IN  /\ Kex = QNorm(k12.n * k21.d, k12.d * k21.n)
            /\ RSquare(result[1].K_error) =
                   QMul(QMul(Kex, Kex),
                        QAdd(QDiv(v12, QMul(k12, k12)),
                             QDiv(v21, QMul(k21, k21))))

C5_Witness ==
    /\ result # <<>> /\ NonZeroRates
    /\ fit[1].param[1] # fit[1].param[2]
    /\ CovFinite(fit[1].cov)
    /\ fit[1].cov[1][2].n # 0

Calls == {model.calls[i] : i \in 1..Len(model.calls)}

Asymptote == QNorm(model.k_12, model.k_21)

\* C6 as stated: for t_m >= 0 and k12, k21 > 0 the value lies in
\* [0, k12/(k12+k21)] and is exactly 0 at t_m = 0.
C6_BoundedBySum ==
    \A c \in Calls :
        /\ QLeq(QInt(0), c[2])
        /\ QLeq(c[2], QNorm(model.k_12, model.k_12 + model.k_21))
        /\ (c[1] = 0 => c[2] = QInt(0))

\* C6 amended: for t_m >= 0 and k12, k21 > 0 the value lies in
\* [0, k12/k21], is exactly 0 at t_m = 0, and approaches k12/k21 as t_m
\* grows: its distance to k12/k21 is at most
\* (k12 * (k12 + k21) / k21^2) * exp(-(k12 + k21) * t_m).
C6_BoundedByRatio ==
    \A c \in Calls :
        /\ QIsFinite(c[2])
        /\ QLeq(QInt(0), c[2])
        /\ QLeq(c[2], Asymptote)
        /\ (c[1] = 0 => c[2] = QInt(0))
        /\ QLeq(QSub(Asymptote, c[2]),
                QMul(QNorm(model.k_12 * (model.k_12 + model.k_21),
                           model.k_21 * model.k_21),
                     QNorm(1, Pow2((model.k_12 + model.k_21) * c[1]))))

C6_Witness ==
    /\ Len(model.calls) = 2
    /\ model.calls[1][1] = 0
    /\ model.calls[2][1] > 0
    /\ ~QLeq(model.calls[2][2], QNorm(model.k_12, model.k_12 + model.k_21))

\* C7: for k12, k21 > 0 and 0 <= t1 <= t2,
\* calc_iratio(t1, k12, k21) <= calc_iratio(t2, k12, k21).
C7_Monotone ==
    \A c1 \in Calls, c2 \in Calls :
        c1[1] <= c2[1] => QLeq(c1[2], c2[2])

C7_Witness ==
    /\ Len(model.calls) = 2
    /\ 0 < model.calls[1][1]
    /\ model.calls[1][1] < model.calls[2][1]
    /\ model.calls[1][2] # model.calls[2][2]

Finished == pc \in {"returned", "raised"}

\* C8: two runs of main on files with the same times and ratios that differ
\* only in the error column, or in its absence, end with the same fitted
\* parameters, standard errors, Kex and K_error, the same report and the
\* same failure.
C8_ErrorsDoNotReachFit ==
    (prev # <<>> /\ Finished /\ SameData(prev[1].input, input)) =>
        /\ fit = prev[1].fit
        /\ result = prev[1].result
        /\ exc = prev[1].exc
        /\ \A i \in 1..3 :
              (i <= Len(printed) \/ i <= Len(prev[1].printed)) =>
                  /\ i <= Len(printed) /\ i <= Len(prev[1].printed)
                  /\ printed[i] = prev[1].printed[i]

C8_Witness ==
    /\ prev # <<>> /\ pc = "returned"
    /\ result # <<>>
    /\ input.ncols = 3 /\ prev[1].input.ncols = 3
    /\ errors # prev[1].errors

\* C9: the pair plot_fit gives to calc_iratio is the solver's fitted pair,
\* not multiplied by 1000.
C9_PlotUsesRawPair ==
    plot # <<>> => plot[1].curve = fit[1].param

C9_Witness ==
    /\ plot # <<>>
    /\ plot[1].curve[1].n # 0 /\ plot[1].curve[2].n # 0

Order == <<"load_data", "calc_rates", "plot_fit">>

\* C10: main calls load_data, calc_rates, plot_fit in this order, each at
\* most once; a missing path prints the message and returns without any of
\* them; plot_fit runs only after calc_rates returned; a failure of
\* load_data or calc_rates leaves main as that exception and nothing is
\* plotted.
C10_MainOrder ==
    entry = "main" =>
        /\ Len(steps) <= 3 /\ steps = SubSeq(Order, 1, Len(steps))
        /\ (input.kind = "missing" /\ pc # "start") =>
              /\ pc = "returned" /\ steps = <<>>
              /\ printed = << <<"not_found">> >>
        /\ (plot # <<>>) => (result # <<>> /\ exc = "" /\ Len(steps) = 3)
        /\ (Len(steps) = 3) => (plot # <<>> /\ pc = "returned")
        /\ (pc = "raised") <=> (exc # "")
        /\ (exc # "") => plot = <<>>
        /\ (fit # <<>> /\ fit[1].kind = "raise") =>
              (pc = "raised" /\ exc = fit[1].exc /\ result = <<>>)

C10_Witness ==
    /\ entry = "main" /\ pc = "returned"
    /\ steps = Order
    /\ Len(printed) = 4 /\ printed[4] = <<"saved", <<"out", "_fit.pdf">>>>
====
